---- MODULE Spec2Model ----
(***************************************************************************)
(* Dispatcher runtime of covalent: run_workflow / _run_planned_workflow    *)
(* (the wave scheduler), _run_task (the task runner) and the worker pool   *)
(* (concurrent.futures.ThreadPoolExecutor) that runs the task jobs and     *)
(* their done-callbacks.                                                   *)
(***************************************************************************)
EXTENDS Integers, Sequences, FiniteSets, TLC

VARIABLES
    lattice,        \* the dispatched lattice: node names, parents, workflow executor
    result_object,  \* the Result of the dispatch (workflow fields and node states)
    pc,             \* position of the scheduler thread inside run_workflow
    layer,          \* index of the current wave in `order`
    idx,            \* index of the current node inside the wave
    task_input,     \* inputs assembled for the node being submitted
    raised,         \* the exception travelling up to run_workflow's handler
    future,         \* job -> Future of the job (state, outcome, callback registered)
    jobpc,          \* job -> position of the worker thread running that job
    queue,          \* work queue of the thread pool (FIFO)
    db,             \* the dispatch row of the Dispatch Store (last upsert)
    webhook,        \* last update sent to the observers
    unsent,         \* threads between their persistence write and their
                    \* send_update, in the order of the writes
    session_pc,     \* position inside WorkflowDB.begin_session ("none": no session)
    pending_uploads,    \* DataStoreSession.pending_uploads
    pending_deletes,    \* DataStoreSession.pending_deletes
    drain,          \* position of the for loop draining a queue
    session_calls,  \* calls made on the SQL session and on blob storage, in order
    session_raised  \* the exception begin_session hands to its caller

dispatch_vars == <<lattice, result_object, pc, layer, idx, task_input, raised, future,
                   jobpc, queue, db, webhook, unsent>>

session_vars == <<session_pc, pending_uploads, pending_deletes, drain, session_calls,
                  session_raised>>

vars == <<dispatch_vars, session_vars>>

\* ------------------------------------------------------------------ bounds

\* number of threads of the worker pool
PoolSize == 2

\* ------------------------------------------------------------ name markers

parameter_prefix == ":parameter:"
subscript_prefix == ":subscript:"
attr_prefix == ":attribute:"
generator_prefix == ":generator:"
sublattice_prefix == ":sublattice:"
electron_list_prefix == ":electron_list:"
electron_dict_prefix == ":electron_dict:"
no_prefix == ""

\* A node name is <<marker, rest>>; str.startswith(marker) reads the marker.
StartsWith(name, prefix) == name[1] = prefix

PurePrefixes == {subscript_prefix, generator_prefix, parameter_prefix, attr_prefix}

StartsWithAny(name, prefixes) == \E p \in prefixes : StartsWith(name, p)

\* ---------------------------------------------------------------- statuses

NEW_OBJECT == "NEW_OBJECT"
RUNNING == "RUNNING"
COMPLETED == "COMPLETED"
FAILED == "FAILED"
CANCELLED == "CANCELLED"
POSTPROCESSING == "POSTPROCESSING"
PENDING_POSTPROCESSING == "PENDING_POSTPROCESSING"
POSTPROCESSING_FAILED == "POSTPROCESSING_FAILED"

None == "None"
NoError == <<>>
NoTime == <<>>

\* ------------------------------------------------------------- the lattices

\* Node ids are the positions 1..n of `name` (the code numbers them from 0).
\* parents[n] is get_dependencies(n), in edge-insertion order; edge_data[n][i]
\* is get_edge_data(parents[n][i], n), the parallel edges of that pair.
Edge(param_type, edge_name) == [param_type |-> param_type, edge_name |-> edge_name]

\* S4 of the specification: a parameter, a task fed by it, a task fed by that.
ChainLattice(wf) ==
    [name |-> <<<<parameter_prefix, "0">>, <<no_prefix, "reciprocal">>,
                <<no_prefix, "identity">>>>,
     parents |-> <<<<>>, <<1>>, <<2>>>>,
     edge_data |-> <<<<>>, <<<<Edge("kwarg", "x")>>>>, <<<<Edge("kwarg", "x")>>>>>>,
     workflow_executor |-> wf]

\* two tasks in one wave and, in the next wave, an attribute of the first one
WaveLattice(wf) ==
    [name |-> <<<<no_prefix, "square">>, <<no_prefix, "cube">>,
                <<attr_prefix, "real">>>>,
     parents |-> <<<<>>, <<>>, <<1>>>>,
     edge_data |-> <<<<>>, <<>>, <<<<Edge("arg", "x")>>>>>>,
     workflow_executor |-> wf]

\* S5 of the specification: a sublattice node, and a projection of its output
SubLattice(wf) ==
    [name |-> <<<<sublattice_prefix, "inner">>, <<subscript_prefix, "0">>>>,
     parents |-> <<<<>>, <<1>>>>,
     edge_data |-> <<<<>>, <<<<Edge("kwarg", "x")>>>>>>,
     workflow_executor |-> wf]

WorkflowExecutors == {"local", "client"}

Lattices ==
    UNION {{ChainLattice(wf), WaveLattice(wf), SubLattice(wf)} : wf \in WorkflowExecutors}

Nodes == DOMAIN lattice.name

get_dependencies(n) == lattice.parents[n]

ParentSet(n) == {get_dependencies(n)[i] : i \in DOMAIN get_dependencies(n)}

RECURSIVE Depth(_)
Depth(n) ==
    IF ParentSet(n) = {} THEN 1
    ELSE 1 + (CHOOSE d \in {Depth(p) : p \in ParentSet(n)} :
                 \A e \in {Depth(p) : p \in ParentSet(n)} : e <= d)

RECURSIVE Ascending(_)
Ascending(S) ==
    IF S = {} THEN <<>>
    ELSE LET m == CHOOSE x \in S : \A y \in S : x <= y
         IN <<m>> \o Ascending(S \ {m})

NumLayers == CHOOSE d \in {Depth(n) : n \in Nodes} : \A m \in Nodes : Depth(m) <= d

\* transport_graph.get_topologically_sorted_graph(): the waves, ids ascending
order == [l \in 1..NumLayers |-> Ascending({n \in Nodes : Depth(n) = l})]

\* --------------------------------------------------------------- the Result

generate_node_result(node_id, start_time, end_time, status, output, error, stdout, stderr, sublattice_result) ==
    [node_id |-> node_id, start_time |-> start_time, end_time |-> end_time,
     status |-> status, output |-> output, error |-> error, stdout |-> stdout,
     stderr |-> stderr, sublattice_result |-> sublattice_result]

NodeFields == {"start_time", "end_time", "status", "output", "error", "stdout",
               "stderr", "sublattice_result"}

TimeFields == {"start_time", "end_time"}

\* Result._initialize_nodes: every node NEW_OBJECT, nothing else set
InitialNode ==
    [start_time |-> NoTime, end_time |-> NoTime, status |-> NEW_OBJECT, output |-> None,
     error |-> NoError, stdout |-> None, stderr |-> None, sublattice_result |-> None]

\* Result._update_node(**node_result): every field that is not None is stored
MergeNode(node, node_result) ==
    [f \in NodeFields |->
        IF f = "error"
        THEN (IF node_result.error = NoError THEN node.error ELSE node_result.error)
        ELSE IF f \in TimeFields
        THEN (IF node_result[f] = NoTime THEN node[f] ELSE node_result[f])
        ELSE (IF node_result[f] = None THEN node[f] ELSE node_result[f])]

UpdatedNodes(nodes, node_result) ==
    [nodes EXCEPT ![node_result.node_id] = MergeNode(@, node_result)]

_update_node(node_result) ==
    result_object' = [result_object EXCEPT !.nodes = UpdatedNodes(@, node_result)]

_get_node_status(n) == result_object.nodes[n].status

_get_node_error(n) == result_object.nodes[n].error

_get_node_name(n) == lattice.name[n]

get_node_output(n) == result_object.nodes[n].output

\* the document written by one persistence write or sent by one notification
encode_result == result_object

\* the scheduler thread; a worker thread is named by the job it runs
scheduler == <<"scheduler", 0>>

\* with DispatchDB() as db: db.upsert(dispatch_id, result_object); result_object.save()
upsert(thread) ==
    /\ db' = <<encode_result>>
    /\ unsent' = Append(unsent, thread)

\* result_webhook.send_update(result_object)
send_update(thread) ==
    /\ webhook' = <<encode_result>>
    /\ unsent' = SelectSeq(unsent, LAMBDA t : t # thread)

\* rendered traceback of an exception
Traceback(ex) == <<"Traceback", ex>>

\* -------------------------------------------------------- task-input assembly

\* the parents' outputs collected in ascending parent id
ListValuesAscending(n, i) ==
    LET asc == Ascending(ParentSet(n))
    IN [k \in 1..(Len(asc) - i + 1) |-> get_node_output(asc[k + i - 1])]

\* the parents' outputs collected in get_dependencies order
RECURSIVE ListValues(_, _)
ListValues(n, i) ==
    IF i > Len(get_dependencies(n)) THEN <<>>
    ELSE <<get_node_output(get_dependencies(n)[i])>> \o ListValues(n, i + 1)

\* the (parent position, edge position) pairs of a node, in iteration order
RECURSIVE EdgeWalk(_, _, _)
EdgeWalk(n, i, k) ==
    IF i > Len(get_dependencies(n)) THEN <<>>
    ELSE IF k > Len(lattice.edge_data[n][i]) THEN EdgeWalk(n, i + 1, 1)
    ELSE <<<<i, k>>>> \o EdgeWalk(n, i, k + 1)

EdgeAt(n, ik) == lattice.edge_data[n][ik[1]][ik[2]]

ValueAt(n, ik) == get_node_output(get_dependencies(n)[ik[1]])

\* a dict built by assignments in walk order: the last assignment of a key wins
DictOf(n, walk) ==
    LET keys == {EdgeAt(n, walk[j]).edge_name : j \in DOMAIN walk}
        last(key) == CHOOSE j \in DOMAIN walk :
                        /\ EdgeAt(n, walk[j]).edge_name = key
                        /\ \A m \in DOMAIN walk :
                              EdgeAt(n, walk[m]).edge_name = key => m <= j
    IN [key \in keys |-> ValueAt(n, walk[last(key)])]

SelectWalk(n, walk, param_type) ==
    SelectSeq(walk, LAMBDA ik : EdgeAt(n, ik).param_type = param_type)

_get_task_inputs(n) ==
    IF StartsWith(lattice.name[n], electron_list_prefix)
    THEN [args |-> <<>>, kwargs |-> [key \in {"x"} |-> ListValues(n, 1)]]
    ELSE IF StartsWith(lattice.name[n], electron_dict_prefix)
    THEN [args |-> <<>>, kwargs |-> [key \in {"x"} |-> DictOf(n, EdgeWalk(n, 1, 1))]]
    ELSE LET walk == EdgeWalk(n, 1, 1)
             argw == SelectWalk(n, walk, "arg")
         IN [args |-> [j \in DOMAIN argw |-> ValueAt(n, argw[j])],
             kwargs |-> DictOf(n, SelectWalk(n, walk, "kwarg"))]

\* ------------------------------------------------------- jobs and futures

NodeJob(n) == <<"node", n>>
DispatchJob(n) == <<"dispatch_sublattice", n>>
PostProcessJob == <<"post_process", 0>>

Jobs == {NodeJob(n) : n \in Nodes} \cup {DispatchJob(n) : n \in Nodes}
            \cup {PostProcessJob}

\* node_name argument of the _run_task call of a job
JobName(j) ==
    IF j[1] = "node" THEN lattice.name[j[2]] ELSE <<no_prefix, j[1]>>

\* node_id argument of the _run_task call of a job
JobNodeId(j) == IF j[1] = "node" THEN j[2] ELSE -1

NoResult == generate_node_result(-1, NoTime, NoTime, None, None, NoError, None, None, None)

NoFuture == [state |-> "none", result |-> NoResult, exception |-> None,
             callback |-> FALSE]

\* the busy workers, one blocked in fut.result() not counted
BusyExceptBlocked ==
    {j \in Jobs : jobpc[j] \in {"running", "cb_merge", "cb_persist", "cb_notify"}}

\* worker threads busy with a job (running it, blocked in it, or in its callback)
Busy == {j \in Jobs : jobpc[j] \in {"running", "sub_wait", "cb_merge",
                                    "cb_persist", "cb_notify"}}

\* datetime.now(timezone.utc): the clock ticks with every task that finishes,
\* so two tasks never end at the same time
now == <<Cardinality({j \in Jobs : future[j].state = "finished"})>>

\* a pending Future whose work item never reaches the queue
submitUnqueued(j) ==
    /\ future' = [future EXCEPT ![j] = [NoFuture EXCEPT !.state = "pending"]]
    /\ jobpc' = [jobpc EXCEPT ![j] = "queued"]
    /\ UNCHANGED queue

\* ThreadPoolExecutor.submit: a pending Future, the work item queued
submit(j) ==
    /\ future' = [future EXCEPT ![j] = [NoFuture EXCEPT !.state = "pending"]]
    /\ jobpc' = [jobpc EXCEPT ![j] = "queued"]
    /\ queue' = Append(queue, j)

\* ----------------------------------------------------------------- Init

\* no data-store session is open while the dispatcher runs
NoSession ==
    /\ session_pc = "none"
    /\ pending_uploads = <<>>
    /\ pending_deletes = <<>>
    /\ drain = 1
    /\ session_calls = <<>>
    /\ session_raised = None

\* run_workflow is entered with a freshly constructed Result
InitDispatch ==
    /\ lattice \in Lattices
    /\ result_object = [status |-> NEW_OBJECT, start_time |-> NoTime, end_time |-> NoTime,
                        error |-> NoError, result |-> None,
                        nodes |-> [n \in DOMAIN lattice.name |-> InitialNode]]
    /\ pc = "init"
    /\ layer = 1
    /\ idx = 1
    /\ task_input = [args |-> <<>>, kwargs |-> <<>>]
    /\ raised = None
    /\ future = [j \in ({NodeJob(n) : n \in DOMAIN lattice.name}
                          \cup {DispatchJob(n) : n \in DOMAIN lattice.name}
                          \cup {PostProcessJob}) |-> NoFuture]
    /\ jobpc = [j \in DOMAIN future |-> "idle"]
    /\ queue = <<>>
    /\ db = <<>>
    /\ webhook = <<>>
    /\ unsent = <<>>

Init ==
    /\ NoSession
    /\ InitDispatch

\* ------------------------------------------------- the scheduler thread

cur == order[layer][idx]

\* the inline branch taken for parameter nodes only
IsPureParameterOnly(n) == StartsWith(lattice.name[n], parameter_prefix)

IsPure(n) == StartsWithAny(lattice.name[n], PurePrefixes)

sched_vars == <<pc, layer, idx, task_input, raised>>
pool_vars == <<future, jobpc, queue>>

\* the for loop over the nodes of a wave: the next node, or wait(futures)
NextNode ==
    IF idx < Len(order[layer])
    THEN /\ idx' = idx + 1
         /\ pc' = "node"
         /\ UNCHANGED layer
    ELSE /\ pc' = "wait"
         /\ UNCHANGED <<layer, idx>>

\* the exception is recorded and the loop goes on with the next node
RaiseAndContinue(ex) ==
    /\ raised' = ex
    /\ NextNode

\* an exception leaves _run_planned_workflow for run_workflow's handler
Raise(ex) ==
    /\ pc' = "except"
    /\ raised' = ex
    /\ UNCHANGED <<layer, idx>>

\* run_workflow up to the first wave: nodes initialised, status RUNNING
RunWorkflow ==
    /\ pc = "init"
    /\ result_object' = [result_object EXCEPT !.status = RUNNING, !.start_time = now]
    /\ pc' = "node"
    /\ UNCHANGED <<lattice, layer, idx, task_input, raised, pool_vars, db, webhook, unsent>>
    /\ UNCHANGED session_vars

\* output of a parameter / subscript / attribute / generator node
PureOutput(n) ==
    IF StartsWith(lattice.name[n], parameter_prefix) THEN "value"
    ELSE IF get_node_output(get_dependencies(n)[1]) = None THEN None
    ELSE "projection"

PureNodeResult(n) ==
    generate_node_result(n, now, now, COMPLETED, PureOutput(n), NoError, None, None, None)

\* a pure node is completed inline; projecting a parent output that is None raises
RunPureNode ==
    /\ pc = "node"
    /\ IsPure(cur)
    /\ IF PureOutput(cur) = None
       THEN /\ Raise("TypeError")
            /\ UNCHANGED result_object
       ELSE /\ _update_node(PureNodeResult(cur))
            /\ NextNode
            /\ UNCHANGED raised
    /\ UNCHANGED <<lattice, task_input, pool_vars, db, webhook, unsent>>
    /\ UNCHANGED session_vars

\* exceptions of reading the executor selection and rehydrating the deps
AssemblyErrors == {"KeyError", "DepsError"}

\* _get_task_inputs, executor selection, deps rehydration of a task node
AssembleInputs ==
    /\ pc = "node"
    /\ ~IsPure(cur)
    /\ task_input' = _get_task_inputs(cur)
    /\ \E ex \in AssemblyErrors \cup {None} :
          IF ex = None
          THEN /\ pc' = "mark_merge"
               /\ UNCHANGED <<layer, idx, raised>>
          ELSE Raise(ex)
    /\ UNCHANGED <<lattice, result_object, pool_vars, db, webhook, unsent>>
    /\ UNCHANGED session_vars

\* the RUNNING mark without its status
RunningNodeResultNoStatus(n) ==
    generate_node_result(n, now, NoTime, None, None, NoError, None, None, None)

RunningNodeResult(n) ==
    generate_node_result(n, now, NoTime, RUNNING, None, NoError, None, None, None)

\* update_node_result(status=RUNNING), first statement: merge into the Result
MarkRunning ==
    /\ pc = "mark_merge"
    /\ _update_node(RunningNodeResult(cur))
    /\ pc' = "mark_persist"
    /\ UNCHANGED <<lattice, layer, idx, task_input, raised, pool_vars, db, webhook, unsent>>
    /\ UNCHANGED session_vars

MarkPersist ==
    /\ pc = "mark_persist"
    /\ upsert(scheduler)
    /\ pc' = "mark_notify"
    /\ UNCHANGED <<lattice, result_object, layer, idx, task_input, raised, pool_vars,
                   webhook>>
    /\ UNCHANGED session_vars

MarkNotify ==
    /\ pc = "mark_notify"
    /\ send_update(scheduler)
    /\ pc' = "submit"
    /\ UNCHANGED <<lattice, result_object, layer, idx, task_input, raised, pool_vars, db>>
    /\ UNCHANGED session_vars

\* thread_pool.submit(_run_task, node_id=node_id, ...)
SubmitTask ==
    /\ pc = "submit"
    /\ submit(NodeJob(cur))
    /\ pc' = "add_done_callback"
    /\ UNCHANGED <<lattice, result_object, layer, idx, task_input, raised, db, webhook, unsent>>
    /\ UNCHANGED session_vars

\* future.add_done_callback(task_callback): registered, or run here when the
\* future is already finished
AddDoneCallback ==
    /\ pc = "add_done_callback"
    /\ IF future[NodeJob(cur)].state = "finished"
       THEN /\ pc' = "callback"
            /\ UNCHANGED <<layer, idx, future>>
       ELSE /\ future' = [future EXCEPT ![NodeJob(cur)].callback = TRUE]
            /\ NextNode
    /\ UNCHANGED <<lattice, result_object, task_input, raised, jobpc, queue, db, webhook,
                   unsent>>
    /\ UNCHANGED session_vars

\* task_callback run by the scheduler thread: future.result() re-raises the
\* task's exception (logged by the Future, nothing merged)
InlineCallbackMerge ==
    /\ pc = "callback"
    /\ IF future[NodeJob(cur)].exception = None
       THEN /\ _update_node(future[NodeJob(cur)].result)
            /\ pc' = "callback_persist"
            /\ UNCHANGED <<layer, idx>>
       ELSE /\ NextNode
            /\ UNCHANGED result_object
    /\ UNCHANGED <<lattice, task_input, raised, pool_vars, db, webhook, unsent>>
    /\ UNCHANGED session_vars

InlineCallbackPersist ==
    /\ pc = "callback_persist"
    /\ upsert(scheduler)
    /\ pc' = "callback_notify"
    /\ UNCHANGED <<lattice, result_object, layer, idx, task_input, raised, pool_vars,
                   webhook>>
    /\ UNCHANGED session_vars

InlineCallbackNotify ==
    /\ pc = "callback_notify"
    /\ send_update(scheduler)
    /\ NextNode
    /\ UNCHANGED <<lattice, result_object, task_input, raised, pool_vars, db>>
    /\ UNCHANGED session_vars

\* the futures list of the current wave
WaveJobs == {NodeJob(order[layer][i]) : i \in {k \in DOMAIN order[layer] : ~IsPure(order[layer][k])}}

\* concurrent.futures.wait(futures) returns once every future is finished
WaitDone == \A j \in WaveJobs : future[j].state = "finished"

Wait ==
    /\ pc = "wait"
    /\ WaitDone
    /\ pc' = "check"
    /\ idx' = 1
    /\ UNCHANGED <<lattice, result_object, layer, task_input, raised, pool_vars, db,
                   webhook, unsent>>
    /\ UNCHANGED session_vars

NodeFailedError(n) ==
    <<"Node ", _get_node_name(n)[1], _get_node_name(n)[2], " failed: \n">>
        \o _get_node_error(n)

\* the abort branch reporting the last FAILED node of the wave
FailedWorkflowOfLast(n) ==
    LET last == order[layer][Len(order[layer])]
    IN [result_object EXCEPT
           !.status = FAILED, !.end_time = now,
           !.error = NodeFailedError(IF _get_node_status(last) = FAILED THEN last ELSE n)]

\* the abort branch, with the outputs of the nodes dropped
FailedWorkflowDropsOutputs(n) ==
    [result_object EXCEPT
        !.status = FAILED, !.end_time = now, !.error = NodeFailedError(n),
        !.nodes = [m \in DOMAIN result_object.nodes |->
                      [result_object.nodes[m] EXCEPT !.output = None]]]

\* the Result after the abort branch of the post-wait check for node n
FailedWorkflow(n) ==
    [result_object EXCEPT !.status = FAILED, !.end_time = now,
                          !.error = NodeFailedError(n)]

CancelledWorkflow == [result_object EXCEPT !.status = CANCELLED, !.end_time = now]

\* for node_id in nodes: one iteration of the post-wait status check
CheckNode ==
    /\ pc = "check"
    /\ IF _get_node_status(cur) = FAILED
       THEN /\ result_object' = FailedWorkflow(cur)
            /\ pc' = "return_persist"
            /\ UNCHANGED <<layer, idx>>
       ELSE IF _get_node_status(cur) = CANCELLED
       THEN /\ result_object' = CancelledWorkflow
            /\ pc' = "return_persist"
            /\ UNCHANGED <<layer, idx>>
       ELSE /\ UNCHANGED result_object
            /\ IF idx < Len(order[layer])
               THEN /\ idx' = idx + 1
                    /\ UNCHANGED <<pc, layer>>
               ELSE IF layer < NumLayers
               THEN /\ layer' = layer + 1
                    /\ idx' = 1
                    /\ pc' = "node"
               ELSE /\ pc' = "post_process"
                    /\ UNCHANGED <<layer, idx>>
    /\ UNCHANGED <<lattice, task_input, raised, pool_vars, db, webhook, unsent>>
    /\ UNCHANGED session_vars

pp_executor == lattice.workflow_executor

\* after the last wave: client-side post-processing, or the post-process job
PostProcess ==
    /\ pc = "post_process"
    /\ IF pp_executor = "client"
       THEN /\ result_object' = [result_object EXCEPT !.status = PENDING_POSTPROCESSING,
                                                      !.end_time = now]
            /\ pc' = "return_persist"
            /\ UNCHANGED pool_vars
       ELSE /\ result_object' = [result_object EXCEPT !.status = POSTPROCESSING]
            /\ submit(PostProcessJob)
            /\ pc' = "post_process_result"
    /\ UNCHANGED <<lattice, layer, idx, task_input, raised, db, webhook, unsent>>
    /\ UNCHANGED session_vars

\* the post-process branches without the assignment of the result
PostProcessedNoResult(fut) ==
    IF fut.exception # None
    THEN [result_object EXCEPT !.status = POSTPROCESSING_FAILED,
                               !.error = <<"Post-processing failed">>,
                               !.end_time = now]
    ELSE IF fut.result.status # COMPLETED
    THEN [result_object EXCEPT !.status = POSTPROCESSING_FAILED,
                               !.error = <<"Post-processing failed: ", fut.result.stderr>>,
                               !.end_time = now]
    ELSE [result_object EXCEPT !.status = COMPLETED,
                               !.end_time = now]

\* the Result after future.result() of the post-process job
PostProcessed(fut) ==
    IF fut.exception # None
    THEN [result_object EXCEPT !.status = POSTPROCESSING_FAILED,
                               !.error = <<"Post-processing failed">>,
                               !.end_time = now]
    ELSE IF fut.result.status # COMPLETED
    THEN [result_object EXCEPT !.status = POSTPROCESSING_FAILED,
                               !.error = <<"Post-processing failed: ", fut.result.stderr>>,
                               !.end_time = now]
    ELSE [result_object EXCEPT !.result = fut.result.output,
                               !.status = COMPLETED,
                               !.end_time = now]

PostProcessResult ==
    /\ pc = "post_process_result"
    /\ future[PostProcessJob].state = "finished"
    /\ result_object' = PostProcessed(future[PostProcessJob])
    /\ pc' = "return_persist"
    /\ UNCHANGED <<lattice, layer, idx, task_input, raised, pool_vars, db, webhook, unsent>>
    /\ UNCHANGED session_vars

\* the persist / notify / return that ends every branch of _run_planned_workflow
ReturnPersist ==
    /\ pc = "return_persist"
    /\ upsert(scheduler)
    /\ pc' = "return_notify"
    /\ UNCHANGED <<lattice, result_object, layer, idx, task_input, raised, pool_vars,
                   webhook>>
    /\ UNCHANGED session_vars

ReturnNotify ==
    /\ pc = "return_notify"
    /\ send_update(scheduler)
    /\ pc' = "returned"
    /\ UNCHANGED <<lattice, result_object, layer, idx, task_input, raised, pool_vars, db>>
    /\ UNCHANGED session_vars

\* the except clause without the end_time assignment
ExceptResultNoEndTime(ex) ==
    [result_object EXCEPT !.status = FAILED, !.error = Traceback(ex)]

\* the Result after run_workflow's except clause
ExceptResult(ex) ==
    [result_object EXCEPT !.status = FAILED, !.end_time = now, !.error = Traceback(ex)]

\* run_workflow: except Exception as ex
HandleException ==
    /\ pc = "except"
    /\ result_object' = ExceptResult(raised)
    /\ pc' = "except_persist"
    /\ UNCHANGED <<lattice, layer, idx, task_input, raised, pool_vars, db, webhook, unsent>>
    /\ UNCHANGED session_vars

ExceptPersist ==
    /\ pc = "except_persist"
    /\ upsert(scheduler)
    /\ pc' = "returned"
    /\ UNCHANGED <<lattice, result_object, layer, idx, task_input, raised, pool_vars,
                   webhook>>
    /\ UNCHANGED session_vars

\* --------------------------------------------------- the worker threads

\* a free worker takes the oldest work item
StartJob ==
    /\ queue # <<>>
    /\ Cardinality(Busy) < PoolSize
    /\ jobpc' = [jobpc EXCEPT ![Head(queue)] = "running"]
    /\ queue' = Tail(queue)
    /\ UNCHANGED <<lattice, result_object, sched_vars, future, db, webhook, unsent>>
    /\ UNCHANGED session_vars

\* _WorkItem.run: the Future becomes finished (waiters are notified), and only
\* then the worker invokes the callbacks registered so far
AfterRun(j) == IF future[j].callback THEN "cb_merge" ELSE "done"

set_result(j, node_result) ==
    /\ future' = [future EXCEPT ![j].state = "finished", ![j].result = node_result]
    /\ jobpc' = [jobpc EXCEPT ![j] = AfterRun(j)]

set_exception(j, ex) ==
    /\ future' = [future EXCEPT ![j].state = "finished", ![j].exception = ex]
    /\ jobpc' = [jobpc EXCEPT ![j] = AfterRun(j)]

\* _run_task, first try block: get_executor / from_dict failed, raise ex
ExecutorFailure(j, ex) == set_exception(j, ex)

\* the except clause without end_time
ExceptNodeResultNoEndTime(node_id, ex) ==
    generate_node_result(node_id, NoTime, NoTime, FAILED, None, Traceback(ex), None, None,
                         None)

\* _run_task, except clause of the second try block
ExceptNodeResult(node_id, ex) ==
    generate_node_result(node_id, NoTime, now, FAILED, None, Traceback(ex), None, None, None)

\* _run_task, executor.execute returned (output, stdout, stderr)
ExecuteNodeResult(node_id, output) ==
    generate_node_result(node_id, NoTime, now, COMPLETED, output, NoError, "stdout",
                         "stderr", None)

\* what executor.execute returns as output for each kind of job
ExecuteOutput(j) ==
    IF j[1] = "node" THEN "output"
    ELSE IF j[1] = "dispatch_sublattice" THEN "sub_dispatch_id"
    ELSE "result"

TaskOutcomes == {"get_executor raises", "execute raises", "execute returns"}

\* _run_task of a job that is not a sublattice node
RunTask(j) ==
    /\ jobpc[j] = "running"
    /\ ~StartsWith(JobName(j), sublattice_prefix)
    /\ \E outcome \in TaskOutcomes :
          IF outcome = "get_executor raises"
          THEN ExecutorFailure(j, "get_executor")
          ELSE IF outcome = "execute raises"
          THEN set_result(j, ExceptNodeResult(JobNodeId(j), "execute"))
          ELSE set_result(j, ExecuteNodeResult(JobNodeId(j), ExecuteOutput(j)))
    /\ UNCHANGED <<lattice, result_object, sched_vars, queue, db, webhook, unsent>>
    /\ UNCHANGED session_vars

\* _run_task of a sublattice node up to fut.result(): the nested dispatch job
\* is submitted to the same pool
RunSublattice(j) ==
    /\ jobpc[j] = "running"
    /\ StartsWith(JobName(j), sublattice_prefix)
    /\ \E outcome \in {"get_executor raises", "get_executor returns"} :
          IF outcome = "get_executor raises"
          THEN /\ ExecutorFailure(j, "get_executor")
               /\ UNCHANGED queue
          ELSE IF lattice.workflow_executor = "client"
          THEN /\ set_result(j, ExceptNodeResult(JobNodeId(j),
                        "No executor selected for dispatching sublattices"))
               /\ UNCHANGED queue
          ELSE /\ future' = [future EXCEPT
                       ![DispatchJob(j[2])] = [NoFuture EXCEPT !.state = "pending"]]
               /\ jobpc' = [jobpc EXCEPT ![j] = "sub_wait",
                                         ![DispatchJob(j[2])] = "queued"]
               /\ queue' = Append(queue, DispatchJob(j[2]))
    /\ UNCHANGED <<lattice, result_object, sched_vars, db, webhook, unsent>>
    /\ UNCHANGED session_vars

\* the Results that futures[sub_dispatch_id].result() can hand back, named by
\* their status; NoSubResult is a Result that is falsy / missing
SubResults == {COMPLETED, FAILED, PENDING_POSTPROCESSING}
NoSubResult == None

encoded_result(sublattice_result) ==
    IF sublattice_result = COMPLETED THEN "encoded_result" ELSE "encoded_none"

\* the sublattice branch without the check of the sub-Result's status
SublatticeNodeResultUnchecked(node_id, sublattice_result) ==
    generate_node_result(node_id, NoTime, now, COMPLETED,
                         encoded_result(sublattice_result), NoError, None, None,
                         sublattice_result)

\* _run_task, sublattice branch after the sub-dispatch's Result is obtained
SublatticeNodeResult(node_id, sublattice_result) ==
    LET node_result ==
            generate_node_result(node_id, NoTime, now, COMPLETED,
                                 encoded_result(sublattice_result), NoError, None, None,
                                 sublattice_result)
    IN IF sublattice_result # COMPLETED
       THEN [node_result EXCEPT !.status = FAILED,
                                !.error = <<"Sublattice workflow failed to complete">>]
       ELSE node_result

\* _run_task of a sublattice node from fut.result() on
AwaitSublattice(j) ==
    /\ jobpc[j] = "sub_wait"
    /\ future[DispatchJob(j[2])].state = "finished"
    /\ LET fut == future[DispatchJob(j[2])]
       IN IF fut.exception # None
          THEN set_result(j, ExceptNodeResult(JobNodeId(j), fut.exception))
          ELSE IF fut.result.output = None
          THEN set_result(j, ExceptNodeResult(JobNodeId(j), "AttributeError"))
          ELSE \E sublattice_result \in SubResults \cup {NoSubResult} :
                  IF sublattice_result = NoSubResult
                  THEN set_result(j, ExceptNodeResult(JobNodeId(j),
                                        "Sublattice execution failed"))
                  ELSE set_result(j, SublatticeNodeResult(JobNodeId(j),
                                                          sublattice_result))
    /\ UNCHANGED <<lattice, result_object, sched_vars, queue, db, webhook, unsent>>
    /\ UNCHANGED session_vars

\* task_callback in the worker thread: future.result() re-raises the task's
\* exception (logged by the Future, nothing merged)
CallbackMerge(j) ==
    /\ jobpc[j] = "cb_merge"
    /\ IF future[j].exception = None
       THEN /\ _update_node(future[j].result)
            /\ jobpc' = [jobpc EXCEPT ![j] = "cb_persist"]
       ELSE /\ jobpc' = [jobpc EXCEPT ![j] = "done"]
            /\ UNCHANGED result_object
    /\ UNCHANGED <<lattice, sched_vars, future, queue, db, webhook, unsent>>
    /\ UNCHANGED session_vars

CallbackPersist(j) ==
    /\ jobpc[j] = "cb_persist"
    /\ upsert(j)
    /\ jobpc' = [jobpc EXCEPT ![j] = "cb_notify"]
    /\ UNCHANGED <<lattice, result_object, sched_vars, future, queue, webhook>>
    /\ UNCHANGED session_vars

CallbackNotify(j) ==
    /\ jobpc[j] = "cb_notify"
    /\ send_update(j)
    /\ jobpc' = [jobpc EXCEPT ![j] = "done"]
    /\ UNCHANGED <<lattice, result_object, sched_vars, future, queue, db>>
    /\ UNCHANGED session_vars

\* ------------------------------------------------------- specification

Next ==
    \/ RunWorkflow
    \/ RunPureNode
    \/ AssembleInputs
    \/ MarkRunning
    \/ MarkPersist
    \/ MarkNotify
    \/ SubmitTask
    \/ AddDoneCallback
    \/ InlineCallbackMerge
    \/ InlineCallbackPersist
    \/ InlineCallbackNotify
    \/ Wait
    \/ CheckNode
    \/ PostProcess
    \/ PostProcessResult
    \/ ReturnPersist
    \/ ReturnNotify
    \/ HandleException
    \/ ExceptPersist
    \/ StartJob
    \/ \E j \in Jobs : RunTask(j)
    \/ \E j \in Jobs : RunSublattice(j)
    \/ \E j \in Jobs : AwaitSublattice(j)
    \/ \E j \in Jobs : CallbackMerge(j)
    \/ \E j \in Jobs : CallbackPersist(j)
    \/ \E j \in Jobs : CallbackNotify(j)

Spec == Init /\ [][Next]_vars

TypeOK ==
    /\ pc \in {"init", "node", "mark_merge", "mark_persist", "mark_notify", "submit",
               "add_done_callback", "callback", "callback_persist", "callback_notify",
               "wait", "check", "post_process", "post_process_result",
               "return_persist", "return_notify", "except", "except_persist",
               "returned", "escaped"}
    /\ Cardinality(Busy) <= PoolSize

\* ------------------------------------------------------------ the claims

Terminal == {COMPLETED, FAILED, CANCELLED}

TaskNodes == {n \in Nodes : ~IsPure(n)}

\* the _run_task call of node n returned a node result with this status
RunEnded(n, status) ==
    /\ future[NodeJob(n)].state = "finished"
    /\ future[NodeJob(n)].exception = None
    /\ future[NodeJob(n)].result.status = status

Submitted(j) == future[j].state # "none"

\* C1: whenever the scheduler assembles the inputs of a task node (it stands
\* at that node, about to read its parents' outputs and submit it), every
\* parent of the node has status COMPLETED in the Result.
C1_ParentsCompletedAtAssembly ==
    (pc = "node" /\ ~IsPure(cur)) =>
        \A p \in ParentSet(cur) : _get_node_status(p) = COMPLETED

\* C2: once the run of a node of wave L has ended FAILED or CANCELLED, no node
\* of a later wave is submitted to the pool and no post-process job is submitted.
C2_EarlyAbort ==
    \A n \in TaskNodes :
        (RunEnded(n, FAILED) \/ RunEnded(n, CANCELLED)) =>
            /\ \A m \in TaskNodes : Depth(m) > Depth(n) => ~Submitted(NodeJob(m))
            /\ ~Submitted(PostProcessJob)

\* C3: while the scheduler runs the post-wait status check of a wave, every
\* node submitted in that wave has a terminal status in the Result.
C3_WaveBarrier ==
    pc = "check" =>
        \A j \in WaveJobs : _get_node_status(j[2]) \in Terminal

\* the scheduler thread takes a step
SchedulerStep == <<pc, layer, idx>>' # <<pc, layer, idx>>

StatusRank(status) ==
    IF status = NEW_OBJECT THEN 0 ELSE IF status = RUNNING THEN 1 ELSE 2

\* NEW -> RUNNING -> terminal, one step at a time
StrictNodeStep(a, b) ==
    \/ a = b
    \/ a = NEW_OBJECT /\ b = RUNNING
    \/ a = RUNNING /\ b \in Terminal

\* what an observer sees of one node in two consecutive updates
ObservedStep(a, b) ==
    /\ StatusRank(a) <= StatusRank(b)
    /\ a \in Terminal => b = a

ObserversMonotone ==
    (webhook # <<>> /\ webhook' # <<>>) =>
        \A n \in Nodes :
            ObservedStep(webhook[1].nodes[n].status, webhook'[1].nodes[n].status)

\* C4 as stated: every node, pure or not, goes NEW -> RUNNING -> terminal.
C4_EveryNodePassesThroughRunning ==
    [][/\ \A n \in Nodes :
             StrictNodeStep(_get_node_status(n), result_object'.nodes[n].status)
       /\ ObserversMonotone]_vars

\* a task node goes NEW -> RUNNING -> terminal; a pure node goes NEW -> COMPLETED
NodeStep(n, a, b) ==
    IF IsPure(n)
    THEN a = b \/ (a = NEW_OBJECT /\ b = COMPLETED)
    ELSE StrictNodeStep(a, b)

\* C4 (amended): every task node's status follows NEW -> RUNNING -> (COMPLETED |
\* FAILED | CANCELLED), every pure node's status goes from NEW straight to
\* COMPLETED; no status regresses, no terminal status changes, and the statuses
\* observers see of each node are monotone in that order.
C4_NodeStatusMonotone ==
    [][/\ \A n \in Nodes :
             NodeStep(n, _get_node_status(n), result_object'.nodes[n].status)
       /\ ObserversMonotone]_vars

\* a task node ended FAILED after RUNNING and the observers were told, next to
\* a pure node that is COMPLETED
C4_Witness ==
    /\ webhook # <<>>
    /\ \E n \in TaskNodes :
          /\ _get_node_status(n) = FAILED
          /\ webhook[1].nodes[n].status = FAILED
    /\ \E m \in Nodes : IsPure(m) /\ _get_node_status(m) = COMPLETED

WorkflowTerminal ==
    {COMPLETED, FAILED, CANCELLED, PENDING_POSTPROCESSING, POSTPROCESSING_FAILED}

\* C5: when run_workflow has returned, the Result's status is one of COMPLETED,
\* FAILED, CANCELLED, PENDING_POSTPROCESSING, POSTPROCESSING_FAILED and its
\* end_time is set, also when an exception was raised inside the scheduler.
C5_ReturnsTerminalResult ==
    pc = "returned" =>
        /\ result_object.status \in WorkflowTerminal
        /\ result_object.end_time # NoTime

\* run_workflow returned through its except clause
C5_Witness ==
    /\ pc = "returned"
    /\ raised # None
    /\ result_object.status = FAILED

\* the error the claim gives a workflow aborted by node n
IsNodeFailedError(error, n) ==
    /\ Len(error) >= 4
    /\ SubSeq(error, 1, 3) = <<"Node ", _get_node_name(n)[1], _get_node_name(n)[2]>>
    /\ error[4] \in {" failed: ", " failed: \n"}
    /\ SubSeq(error, 5, Len(error)) = _get_node_error(n)

\* C6: when the run of a task node ended FAILED (and no exception left the
\* scheduler), run_workflow returns with status FAILED, the error "Node <name>
\* failed: " + the error of a FAILED node of that wave, the Result persisted
\* and sent to the observers, and no post-process job submitted.
C6_FailedNodeFailsWorkflow ==
    (pc = "returned" /\ raised = None /\ \E n \in TaskNodes : RunEnded(n, FAILED)) =>
        /\ result_object.status = FAILED
        /\ \E n \in TaskNodes :
              /\ Depth(n) = layer
              /\ _get_node_status(n) = FAILED
              /\ IsNodeFailedError(result_object.error, n)
        /\ db # <<>> /\ db[1].status = FAILED
        /\ webhook # <<>> /\ webhook[1].status = FAILED
        /\ ~Submitted(PostProcessJob)

\* the nodes of the current wave whose status in the Result is FAILED
FailedInWave == {n \in TaskNodes : Depth(n) = layer /\ _get_node_status(n) = FAILED}

\* the node of the current wave that failed first (smallest end_time)
FirstFailedInTime ==
    CHOOSE n \in FailedInWave :
        \A m \in FailedInWave :
            result_object.nodes[n].end_time[1] <= result_object.nodes[m].end_time[1]

AbortedByCheck ==
    /\ pc \in {"return_persist", "return_notify", "returned"}
    /\ raised = None
    /\ result_object.status = FAILED

\* C7 as stated: when the results of all nodes of the wave are merged and the
\* check then aborts the workflow, the error is that of the node that failed
\* first.
C7_FirstFailedInTimeWins ==
    [][(/\ pc = "check"
        /\ pc' = "return_persist"
        /\ \A j \in WaveJobs : _get_node_status(j[2]) \in Terminal) =>
           result_object'.error = NodeFailedError(FirstFailedInTime)]_vars

\* C7 (amended): the post-wait check goes through the nodes of the wave in the
\* wave's order (ascending id) and the first node whose status it finds FAILED
\* or CANCELLED decides: the workflow gets that status and, for FAILED, that
\* node's error, whichever node failed first in time; a node found in any
\* other status leaves the workflow's status and error as they are.
C7_FirstFailedInWaveOrderWins ==
    [][(pc = "check" /\ SchedulerStep) =>
          IF _get_node_status(cur) \in {FAILED, CANCELLED}
          THEN /\ pc' = "return_persist"
               /\ result_object'.status = _get_node_status(cur)
               /\ _get_node_status(cur) = FAILED =>
                     result_object'.error = NodeFailedError(cur)
          ELSE /\ pc' # "return_persist"
               /\ result_object'.status = result_object.status
               /\ result_object'.error = result_object.error]_vars

\* two nodes of the wave are FAILED and the workflow carries the error of the
\* lower id, which failed later
C7_Witness ==
    /\ AbortedByCheck
    /\ \E n, m \in FailedInWave :
          /\ n < m
          /\ result_object.nodes[m].end_time[1] < result_object.nodes[n].end_time[1]
          /\ result_object.error = NodeFailedError(n)

\* C8: when get_executor / from_dict failed for a node, the node ends FAILED
\* with the traceback as its error and the workflow ends FAILED.
C8_ExecutorFailureFailsNode ==
    \A n \in TaskNodes :
        (/\ pc = "returned"
         /\ raised = None
         /\ jobpc[NodeJob(n)] = "done"
         /\ future[NodeJob(n)].exception = "get_executor") =>
            /\ _get_node_status(n) = FAILED
            /\ _get_node_error(n) # NoError
            /\ result_object.status = FAILED

SublatticeErrors == {"No executor selected for dispatching sublattices",
                     "AttributeError", "Sublattice execution failed", "get_executor"}

SublatticeNodes == {n \in Nodes : StartsWith(lattice.name[n], sublattice_prefix)}

\* C10: once the sub-dispatch's Result is obtained, a sublattice node whose
\* sub-Result is not COMPLETED is FAILED with the error "Sublattice workflow
\* failed to complete"; otherwise it is COMPLETED, its output is the
\* sub-Result's encoded result and the sub-Result is its sublattice_result.
C10_SublatticeOutcome ==
    \A n \in SublatticeNodes :
        /\ (future[NodeJob(n)].state = "finished"
              /\ future[NodeJob(n)].result.sublattice_result # None) =>
              LET node_result == future[NodeJob(n)].result
              IN IF node_result.sublattice_result # COMPLETED
                 THEN /\ node_result.status = FAILED
                      /\ node_result.error = <<"Sublattice workflow failed to complete">>
                 ELSE /\ node_result.status = COMPLETED
                      /\ node_result.error = NoError
                      /\ node_result.output = encoded_result(COMPLETED)
        /\ result_object.nodes[n].sublattice_result # None =>
              LET node == result_object.nodes[n]
              IN IF node.sublattice_result # COMPLETED
                 THEN /\ node.status = FAILED
                      /\ node.error = <<"Sublattice workflow failed to complete">>
                 ELSE /\ node.status = COMPLETED
                      /\ node.error = NoError
                      /\ node.output = encoded_result(COMPLETED)

\* a sublattice node whose sub-dispatch did not complete, merged into the Result
C10_Witness ==
    \E n \in SublatticeNodes :
        /\ result_object.nodes[n].sublattice_result = FAILED
        /\ result_object.nodes[n].status = FAILED

\* run_workflow returned, no exception left the scheduler and the post-wait
\* checks found no FAILED or CANCELLED node
FinishedAllWaves ==
    /\ pc = "returned"
    /\ raised = None
    /\ result_object.status \notin {FAILED, CANCELLED}

\* C11: when the post-process executor is "client" and all waves finish
\* without a FAILED or CANCELLED node, run_workflow returns with status
\* PENDING_POSTPROCESSING, no post-process job submitted, every task node
\* COMPLETED, `result` unset, the Result persisted and sent to the observers.
C11_ClientPostProcessing ==
    (FinishedAllWaves /\ pp_executor = "client") =>
        /\ result_object.status = PENDING_POSTPROCESSING
        /\ ~Submitted(PostProcessJob)
        /\ \A n \in TaskNodes : _get_node_status(n) = COMPLETED
        /\ result_object.result = None
        /\ db # <<>>
        /\ db[1].status = PENDING_POSTPROCESSING
        /\ webhook # <<>>
        /\ webhook[1].status = PENDING_POSTPROCESSING

\* executor.execute of the post-process job raised: the post-process function
\* raised, and _run_task returned a FAILED node result
PostProcessRaised ==
    /\ future[PostProcessJob].state = "finished"
    /\ future[PostProcessJob].exception = None
    /\ future[PostProcessJob].result.status = FAILED

\* C12: when the post-process function raised, run_workflow returns with status
\* POSTPROCESSING_FAILED and the error "Post-processing failed: " followed by
\* the stderr captured from the post-process run (a captured text, not the
\* rendering of a missing value); the Result is persisted and sent to observers.
C12_PostProcessFailure ==
    (pc = "returned" /\ PostProcessRaised) =>
        /\ result_object.status = POSTPROCESSING_FAILED
        /\ Len(result_object.error) = 2
        /\ result_object.error[1] = "Post-processing failed: "
        /\ result_object.error[2] # None
        /\ db # <<>>
        /\ db[1].status = POSTPROCESSING_FAILED
        /\ webhook # <<>>
        /\ webhook[1].status = POSTPROCESSING_FAILED

PureNodes ==
    {n \in Nodes : lattice.name[n][1] \in {parameter_prefix, subscript_prefix,
                                          attr_prefix, generator_prefix}}

MergedOnce(n) ==
    /\ future[NodeJob(n)].state = "finished"
    /\ future[NodeJob(n)].exception = None
    /\ _get_node_status(n) = future[NodeJob(n)].result.status
    /\ get_node_output(n) = future[NodeJob(n)].result.output
    /\ get_node_output(n) # None

\* C15: when the dispatch has ended COMPLETED, every non-pure node was
\* submitted, its one executor invocation returned a node result, and that
\* node result (and no other) was merged into the Result and set its output.
C15_ExactlyOneMerge ==
    (pc = "returned" /\ result_object.status = COMPLETED) =>
        \A n \in TaskNodes : Submitted(NodeJob(n)) /\ MergedOnce(n)

\* worker threads inside update_node_result (node result merged, persisting or
\* notifying) on behalf of a done-callback
WorkersInUpdate == {j \in Jobs : jobpc[j] \in {"cb_persist", "cb_notify"}}

\* the scheduler thread is inside update_node_result
SchedulerInUpdate ==
    pc \in {"mark_persist", "mark_notify", "callback_persist", "callback_notify"}

\* the scheduler thread is reading or writing the Result on its own account
SchedulerUsesResult ==
    pc \in {"node", "mark_merge", "check", "post_process", "return_persist",
            "return_notify", "except", "except_persist"}

\* C16: update_node_result never runs in a worker thread, so never in two
\* threads at once and never while the scheduler reads or writes the Result:
\* the scheduler thread is the only one that mutates and persists the Result.
C16_SchedulerIsSoleWriter ==
    /\ WorkersInUpdate = {}
    /\ Cardinality(WorkersInUpdate) + (IF SchedulerInUpdate THEN 1 ELSE 0) <= 1
    /\ WorkersInUpdate # {} => ~SchedulerUsesResult

\* C17: the notifications of a dispatch are sent in the order of its
\* persistence writes: a thread that sends its update is the one whose write
\* is the oldest not yet notified, whatever the interleaving of the callbacks.
C17_NotifyInWriteOrder ==
    [][Len(unsent') < Len(unsent) => unsent' = Tail(unsent)]_vars

\* the last mutation of the Result has been written to the store and sent to
\* the observers (or the Result has not been touched since its construction)
PersistedAndNotified ==
    \/ result_object.status = NEW_OBJECT
    \/ db = <<result_object>> /\ webhook = <<result_object>>

\* C18: every mutation of the Result made while running a workflow is followed
\* by a persistence write and a send_update before the next mutation: a step
\* that mutates the Result starts from a Result that is persisted and
\* notified, and when run_workflow returns, by whichever path, the Result it
\* returns has been persisted and notified.
C18_MutationThenPersistThenNotify ==
    [][/\ result_object' # result_object => PersistedAndNotified
       /\ (pc # "returned" /\ pc' = "returned") =>
             (db' = <<result_object'>> /\ webhook' = <<result_object'>>)]_vars

\* C19: once run_workflow has returned, the completion of a task that was
\* still in flight changes nothing: no node state (nor any other field) of the
\* Result changes, no persistence write is made and no update is sent.
C19_LateCompletionDiscarded ==
    [][pc = "returned" =>
          /\ result_object' = result_object
          /\ db' = db
          /\ webhook' = webhook]_vars

\* ------------------------------------------------ cooperative cancellation

\* the scheduler is between two waves: the check of the previous wave is over
\* and no node of the next wave has been handled yet
BetweenWaves == pc = "node" /\ idx = 1 /\ layer > 1

Cancelled == {n \in Nodes : _get_node_status(n) = CANCELLED}

\* a party outside the scheduler sets the status of one node to CANCELLED
\* between two waves (cancel_workflow itself does nothing)
CancelNode ==
    /\ BetweenWaves
    /\ Cancelled = {}
    /\ \E n \in Nodes :
          result_object' = [result_object EXCEPT !.nodes[n].status = CANCELLED]
    /\ UNCHANGED <<lattice, sched_vars, pool_vars, db, webhook, unsent>>
    /\ UNCHANGED session_vars

NextCancel ==
    \/ Next
    \/ CancelNode

SpecCancel == Init /\ [][NextCancel]_vars

\* the scheduler submits a node's job or the post-process job in this step
SchedulerSubmits ==
    \E j \in {NodeJob(n) : n \in Nodes} \cup {PostProcessJob} :
        future[j].state = "none" /\ future'[j].state # "none"

\* C20: once a node's status has been set to CANCELLED between two waves, the
\* scheduler submits no further job, the cancelled node's status is not
\* overwritten, and run_workflow (when no exception leaves the scheduler)
\* returns with workflow status CANCELLED.
C20_CooperativeCancellation ==
    [][/\ Cancelled # {} => ~SchedulerSubmits
       /\ \A n \in Cancelled : result_object'.nodes[n].status = CANCELLED
       /\ (Cancelled # {} /\ pc' = "returned" /\ raised' = None) =>
             result_object'.status = CANCELLED]_vars

\* ------------------------------------------------ the data-store session

\* most entries a queue receives in one session
MaxQueued == 2

\* file names of the blobs
Files == {"a", "b"}

\* what a call on the SQL session or on blob storage does
Outcomes == {"returns", "raises"}

Call(op, file, outcome) == <<op, file, outcome>>

\* DataStoreSession.queue_upload
queue_upload(file) == pending_uploads' = Append(pending_uploads, file)

\* DataStoreSession.queue_delete
queue_delete(file) == pending_deletes' = Append(pending_deletes, file)

\* begin_session up to the yield: session.begin(), DataStoreSession(session)
SessionInit ==
    /\ InitDispatch
    /\ lattice = ChainLattice("local")
    /\ session_pc = "body"
    /\ pending_uploads = <<>>
    /\ pending_deletes = <<>>
    /\ drain = 1
    /\ session_calls = <<>>
    /\ session_raised = None

\* the body of the with block queues an upload
QueueUpload ==
    /\ session_pc = "body"
    /\ Len(pending_uploads) < MaxQueued
    /\ \E file \in Files : queue_upload(file)
    /\ UNCHANGED <<session_pc, pending_deletes, drain, session_calls, session_raised>>
    /\ UNCHANGED dispatch_vars

\* the body of the with block queues a delete
QueueDelete ==
    /\ session_pc = "body"
    /\ Len(pending_deletes) < MaxQueued
    /\ \E file \in Files : queue_delete(file)
    /\ UNCHANGED <<session_pc, pending_uploads, drain, session_calls, session_raised>>
    /\ UNCHANGED dispatch_vars

\* the body raises: the exception is thrown into the generator at the yield
BodyRaises ==
    /\ session_pc = "body"
    /\ session_pc' = "except"
    /\ session_raised' = "BodyError"
    /\ UNCHANGED <<pending_uploads, pending_deletes, drain, session_calls>>
    /\ UNCHANGED dispatch_vars

\* the body ends and the queues are drained without a commit
BodyReturnsSkipsCommit ==
    /\ session_pc = "body"
    /\ session_pc' = "uploads"
    /\ UNCHANGED <<pending_uploads, pending_deletes, drain, session_calls, session_raised>>
    /\ UNCHANGED dispatch_vars

\* the body ends: the generator is resumed after the yield
BodyReturns ==
    /\ session_pc = "body"
    /\ session_pc' = "commit"
    /\ UNCHANGED <<pending_uploads, pending_deletes, drain, session_calls, session_raised>>
    /\ UNCHANGED dispatch_vars

\* session.commit()
Commit ==
    /\ session_pc = "commit"
    /\ \E outcome \in Outcomes :
          /\ session_calls' = Append(session_calls, Call("commit", "", outcome))
          /\ IF outcome = "returns"
             THEN /\ session_pc' = "uploads"
                  /\ UNCHANGED session_raised
             ELSE /\ session_pc' = "except"
                  /\ session_raised' = "CommitError"
    /\ UNCHANGED <<pending_uploads, pending_deletes, drain>>
    /\ UNCHANGED dispatch_vars

\* for arg in ds_session.pending_uploads: self.upload_file(*arg). upload_file of
\* WorkflowDB itself raises NotImplementedError; one overridden by a subclass
\* with a storage backend returns, or raises
Upload ==
    /\ session_pc = "uploads"
    /\ IF drain > Len(pending_uploads)
       THEN /\ session_pc' = "deletes"
            /\ drain' = 1
            /\ UNCHANGED <<session_calls, session_raised>>
       ELSE \E outcome \in Outcomes :
               /\ session_calls' =
                     Append(session_calls,
                            Call("upload_file", pending_uploads[drain], outcome))
               /\ IF outcome = "returns"
                  THEN /\ drain' = drain + 1
                       /\ UNCHANGED <<session_pc, session_raised>>
                  ELSE /\ session_pc' = "except"
                       /\ session_raised' = "NotImplementedError"
                       /\ UNCHANGED drain
    /\ UNCHANGED <<pending_uploads, pending_deletes>>
    /\ UNCHANGED dispatch_vars

\* for arg in ds_session.pending_deletes: self.delete_file(*arg)
Delete ==
    /\ session_pc = "deletes"
    /\ IF drain > Len(pending_deletes)
       THEN /\ session_pc' = "closed"
            /\ UNCHANGED <<drain, session_calls, session_raised>>
       ELSE \E outcome \in Outcomes :
               /\ session_calls' =
                     Append(session_calls,
                            Call("delete_file", pending_deletes[drain], outcome))
               /\ IF outcome = "returns"
                  THEN /\ drain' = drain + 1
                       /\ UNCHANGED <<session_pc, session_raised>>
                  ELSE /\ session_pc' = "except"
                       /\ session_raised' = "NotImplementedError"
                       /\ UNCHANGED drain
    /\ UNCHANGED <<pending_uploads, pending_deletes>>
    /\ UNCHANGED dispatch_vars

\* except Exception as ex: session.rollback(); raise ex
Rollback ==
    /\ session_pc = "except"
    /\ session_calls' = Append(session_calls, Call("rollback", "", "returns"))
    /\ session_pc' = "raised"
    /\ UNCHANGED <<pending_uploads, pending_deletes, drain, session_raised>>
    /\ UNCHANGED dispatch_vars

SessionNext ==
    \/ QueueUpload
    \/ QueueDelete
    \/ BodyRaises
    \/ BodyReturns
    \/ Commit
    \/ Upload
    \/ Delete
    \/ Rollback

SpecSession == SessionInit /\ [][SessionNext]_vars

\* the calls that drain a queue completely, in queue order
Drained(op, pending) == [i \in DOMAIN pending |-> Call(op, pending[i], "returns")]

StorageOps == {"upload_file", "delete_file"}

CalledOps == {session_calls[i][1] : i \in DOMAIN session_calls}

Committed == \E i \in DOMAIN session_calls : session_calls[i] = Call("commit", "", "returns")

\* C22: when a failure ended the session before it closed, the exception is
\* re-raised to the caller, the transaction is rolled back (rollback is called
\* and the transaction was not committed), and no upload_file or delete_file
\* call was made for the session.
C22_FailureRollsBackAndDiscards ==
    session_pc = "raised" =>
        /\ session_raised # None
        /\ "rollback" \in CalledOps
        /\ ~Committed
        /\ CalledOps \cap StorageOps = {}

\* C23: a session never has both a commit that took effect and a rollback, and
\* a session that is over has discharged exactly one of: commit and drain both
\* queues completely; roll back and make no upload_file or delete_file call.
C23_CommitXorRollback ==
    /\ ~(Committed /\ "rollback" \in CalledOps)
    /\ session_pc \in {"closed", "raised"} =>
          \/ /\ Committed
             /\ "rollback" \notin CalledOps
             /\ SubSeq(session_calls, 2, Len(session_calls)) =
                   Drained("upload_file", pending_uploads)
                      \o Drained("delete_file", pending_deletes)
          \/ /\ ~Committed
             /\ "rollback" \in CalledOps
             /\ CalledOps \cap StorageOps = {}

\* ------------------------------------------- failing persistence writes

\* the positions of the scheduler thread at a persistence write
SchedulerWrites == {"mark_persist", "callback_persist", "return_persist", "except_persist"}

\* DispatchDB.save_db: an exception of the write is logged and raised again.
\* A write of the scheduler thread fails: nothing around the write catches the
\* exception before run_workflow's handler, and nothing catches that of the
\* handler's own write
SchedulerWriteFails ==
    /\ pc \in SchedulerWrites
    /\ IF pc = "except_persist"
       THEN /\ pc' = "escaped"
            /\ UNCHANGED <<layer, idx, raised>>
       ELSE Raise("WriteError")
    /\ UNCHANGED <<lattice, result_object, task_input, pool_vars, db, webhook, unsent>>
    /\ UNCHANGED session_vars

\* a write of task_callback in a worker thread fails: the exception leaves the
\* callback (it is logged by the Future), send_update is not reached
CallbackWriteFails(j) ==
    /\ jobpc[j] = "cb_persist"
    /\ jobpc' = [jobpc EXCEPT ![j] = "done"]
    /\ UNCHANGED <<lattice, result_object, sched_vars, future, queue, db, webhook, unsent>>
    /\ UNCHANGED session_vars

NextWriteFailure ==
    \/ Next
    \/ SchedulerWriteFails
    \/ \E j \in Jobs : CallbackWriteFails(j)

SpecWriteFailure == Init /\ [][NextWriteFailure]_vars

\* where the scheduler thread stands after the write at this position
AfterWrite(at) ==
    IF at = "mark_persist" THEN "mark_notify"
    ELSE IF at = "callback_persist" THEN "callback_notify"
    ELSE IF at = "return_persist" THEN "return_notify"
    ELSE "returned"

\* C24: a persistence write, failed or not, leaves its thread on the same
\* control path: after the scheduler's write comes the notification (or the
\* return, after the handler's write), after a callback's write comes its
\* send_update; no exception of a write reaches run_workflow's handler.
C24_WriteFailureNotRethrown ==
    [][/\ (pc \in SchedulerWrites /\ pc' # pc) => pc' = AfterWrite(pc)
       /\ \A j \in Jobs :
             (jobpc[j] = "cb_persist" /\ jobpc'[j] # "cb_persist") =>
                jobpc'[j] = "cb_notify"
       /\ raised' # "WriteError"]_vars

\* ------------------------------------------- _get_task_inputs on its inputs

MaxParents == 2

WAIT_EDGE_NAME == "!waiting_edge"

\* the parameter-binding records of an edge; a wait-only edge carries the
\* name "!waiting_edge"
EdgeRecords ==
    {Edge("arg", "a"), Edge("kwarg", "a"), Edge("kwarg", "b"),
     Edge("wait_only", WAIT_EDGE_NAME)}

\* get_edge_data(parent, child): one edge, or two parallel edges the second of
\* which is positional or wait-only
EdgeLists ==
    {<<e>> : e \in EdgeRecords} \cup
        {<<e, f>> : e \in EdgeRecords,
                    f \in {Edge("arg", "a"), Edge("wait_only", WAIT_EDGE_NAME)}}

ChildPrefixes == {no_prefix, electron_list_prefix, electron_dict_prefix}

\* MaxParents parameter nodes and one child of each kind that assembles inputs;
\* deps is the order in which the first edges of the parents were inserted
InputLattices ==
    {[name |-> [n \in 1..(MaxParents + 1) |->
                   IF n <= MaxParents THEN <<parameter_prefix, "value">>
                   ELSE <<prefix, "child">>],
      parents |-> [n \in 1..(MaxParents + 1) |-> IF n <= MaxParents THEN <<>> ELSE deps],
      edge_data |-> [n \in 1..(MaxParents + 1) |-> IF n <= MaxParents THEN <<>> ELSE edges],
      workflow_executor |-> "local"] :
        prefix \in ChildPrefixes,
        deps \in Permutations(1..MaxParents),
        edges \in [1..MaxParents -> EdgeLists]}

\* most positional parameters of the child's function
MaxArgs == 3

\* the edge of a positional binding: arg_index is the position (from 1 here,
\* from 0 in the code)
ArgEdge(edge_name, arg_index) ==
    [param_type |-> "arg", edge_name |-> edge_name, arg_index |-> arg_index]

\* the distinct elements of a sequence, in the order of their first occurrence
RECURSIVE FirstOccurrences(_)
FirstOccurrences(seq) ==
    IF seq = <<>> THEN <<>>
    ELSE <<Head(seq)>> \o
            FirstOccurrences(SelectSeq(Tail(seq), LAMBDA x : x # Head(seq)))

\* the positions, ascending, that a binding gives to parent p
PositionsOf(binding, p) ==
    SelectSeq([k \in DOMAIN binding |-> k], LAMBDA k : binding[k] = p)

\* a regular child called positionally: position k is bound to the parent
\* binding[k], the edges are inserted in the order of the positions, so that
\* the parents come in the order of their first position and a parent bound to
\* several positions has that many parallel edges
PositionalLattices ==
    {[name |-> [n \in 1..(MaxParents + 1) |->
                   IF n <= MaxParents THEN <<parameter_prefix, "value">>
                   ELSE <<no_prefix, "child">>],
      parents |-> [n \in 1..(MaxParents + 1) |->
                      IF n <= MaxParents THEN <<>> ELSE FirstOccurrences(binding)],
      edge_data |-> [n \in 1..(MaxParents + 1) |->
                        IF n <= MaxParents THEN <<>>
                        ELSE [i \in DOMAIN FirstOccurrences(binding) |->
                                 LET at == PositionsOf(binding, FirstOccurrences(binding)[i])
                                 IN [m \in DOMAIN at |-> ArgEdge("a", at[m])]]],
      workflow_executor |-> "local"] :
        binding \in UNION {[1..k -> 1..MaxParents] : k \in 1..MaxArgs}}

\* the output of the parent with this id, one value per parent
OutputOf(p) == <<"output", p>>

\* the scheduler reaches the child in the second wave, every parent COMPLETED
InitInputs ==
    /\ NoSession
    /\ lattice \in InputLattices \cup PositionalLattices
    /\ result_object =
          [status |-> RUNNING, start_time |-> <<0>>, end_time |-> NoTime,
           error |-> NoError, result |-> None,
           nodes |-> [n \in DOMAIN lattice.name |->
                        IF n <= MaxParents
                        THEN [InitialNode EXCEPT !.status = COMPLETED,
                                                 !.output = OutputOf(n)]
                        ELSE InitialNode]]
    /\ pc = "node"
    /\ layer = 2
    /\ idx = 1
    /\ task_input = [args |-> <<>>, kwargs |-> <<>>]
    /\ raised = None
    /\ future = [j \in ({NodeJob(n) : n \in DOMAIN lattice.name}
                          \cup {DispatchJob(n) : n \in DOMAIN lattice.name}
                          \cup {PostProcessJob}) |-> NoFuture]
    /\ jobpc = [j \in DOMAIN future |-> "idle"]
    /\ queue = <<>>
    /\ db = <<>>
    /\ webhook = <<>>
    /\ unsent = <<>>

SpecInputs == InitInputs /\ [][AssembleInputs]_vars

\* the inputs of the current node have been assembled
Assembled == pc = "mark_merge"

Range(f) == {f[x] : x \in DOMAIN f}

\* the parents of a node all of whose edges into it are wait-only
WaitOnlyParents(n) ==
    {get_dependencies(n)[i] : i \in {k \in DOMAIN get_dependencies(n) :
        \A e \in Range(lattice.edge_data[n][k]) : e.param_type = "wait_only"}}

IsCollection(n) ==
    StartsWithAny(lattice.name[n], {electron_list_prefix, electron_dict_prefix})

\* every parent output that the assembled inputs carry: in args, as a kwargs
\* value, or inside the collected value x
InputValues ==
    Range(task_input.args) \cup
        (IF IsCollection(cur) THEN Range(task_input.kwargs["x"])
         ELSE Range(task_input.kwargs))

\* C25: for a regular, a list-collection and a dict-collection node alike, the
\* assembled inputs carry no output of a parent connected only by wait-only
\* edges, and no kwargs key is the wait-only edge name.
C25_WaitOnlyEdgesCarryNoData ==
    Assembled =>
        /\ \A p \in WaitOnlyParents(cur) : get_node_output(p) \notin InputValues
        /\ WAIT_EDGE_NAME \notin DOMAIN task_input.kwargs

\* the edges into a node that are not wait-only, as (parent position, edge
\* position) pairs
DataEdges(n) ==
    {ik \in Range(EdgeWalk(n, 1, 1)) : EdgeAt(n, ik).param_type # "wait_only"}

\* a dict literal has each key once: no two data edges share an edge_name
DistinctEdgeNames(n) ==
    \A ik, jm \in DataEdges(n) : EdgeAt(n, ik).edge_name = EdgeAt(n, jm).edge_name => ik = jm

IsDictNode(n) == StartsWith(lattice.name[n], electron_dict_prefix)

IsListNode(n) == StartsWith(lattice.name[n], electron_list_prefix)

\* C26: for a dict-collection node the assembled inputs are args = [] and
\* kwargs = {"x": m}, where the keys of m are exactly the edge names of the
\* non-wait edges into the node and m maps each of them to the output of the
\* edge's parent.
C26_DictKeyedByDataEdges ==
    (Assembled /\ IsDictNode(cur) /\ DistinctEdgeNames(cur)) =>
        /\ task_input.args = <<>>
        /\ DOMAIN task_input.kwargs = {"x"}
        /\ DOMAIN task_input.kwargs["x"] =
              {EdgeAt(cur, ik).edge_name : ik \in DataEdges(cur)}
        /\ \A ik \in DataEdges(cur) :
              task_input.kwargs["x"][EdgeAt(cur, ik).edge_name] = ValueAt(cur, ik)

\* C27 as stated: for a list-collection node the assembled inputs are
\* args = [] and kwargs = {"x": l}, where l lists the parents' outputs by
\* ascending parent id, whatever the order of insertion of the edges.
C27_ListInParentIdOrder ==
    (Assembled /\ IsListNode(cur)) =>
        /\ task_input.args = <<>>
        /\ DOMAIN task_input.kwargs = {"x"}
        /\ LET asc == Ascending(ParentSet(cur))
           IN task_input.kwargs["x"] = [i \in DOMAIN asc |-> get_node_output(asc[i])]

\* C27: for a list-collection node the assembled inputs are args = [] and
\* kwargs = {"x": l}, where l has one entry per parent, the i-th entry being
\* the output of the i-th parent in dependency order (the order in which the
\* parents' first edges were inserted), not in ascending parent id.
C27_ListInDependencyOrder ==
    (Assembled /\ IsListNode(cur)) =>
        /\ task_input.args = <<>>
        /\ DOMAIN task_input.kwargs = {"x"}
        /\ Len(task_input.kwargs["x"]) = Cardinality(ParentSet(cur))
        /\ \A i \in DOMAIN get_dependencies(cur) :
              task_input.kwargs["x"][i] = get_node_output(get_dependencies(cur)[i])

\* a list-collection node assembled whose parents were not inserted in
\* ascending id
C27_Witness ==
    /\ Assembled
    /\ IsListNode(cur)
    /\ \E i, j \in DOMAIN get_dependencies(cur) :
          i < j /\ get_dependencies(cur)[i] > get_dependencies(cur)[j]

\* ------------------------------------------------- claims on the dispatcher

\* the node at which the scheduler stands and every node after it in the plan
NodesFromCurrent ==
    {order[l][i] : <<l, i>> \in {li \in (DOMAIN order) \X Nodes :
        /\ li[2] \in DOMAIN order[li[1]]
        /\ li[1] > layer \/ (li[1] = layer /\ li[2] >= idx)}}

\* C28: when rehydrating the dependency bundle of a node raises, the wave is
\* aborted: that node and every later node are never submitted (nor marked
\* RUNNING), and run_workflow returns the Result with status FAILED and the
\* rendered traceback as error, that Result persisted.
C28_DepsErrorAbortsWave ==
    raised = "DepsError" =>
        /\ \A n \in NodesFromCurrent :
              /\ future[NodeJob(n)].state = "none"
              /\ _get_node_status(n) = NEW_OBJECT
        /\ pc = "returned" =>
              /\ result_object.status = FAILED
              /\ result_object.error = Traceback("DepsError")
              /\ result_object.end_time # NoTime
              /\ db # <<>>
              /\ db[1].status = FAILED
              /\ db[1].error = Traceback("DepsError")

\* run_workflow has returned after the deps of the second node of a wave
\* raised, the first node of the wave submitted and a later wave pending
C28_Witness ==
    /\ pc = "returned"
    /\ raised = "DepsError"
    /\ idx = 2
    /\ future[NodeJob(order[layer][1])].state # "none"
    /\ layer < Len(order)

\* ------------------------------------------------- saturation of the pool

\* two sublattice nodes in one wave: together they occupy a pool of two workers
SaturationLattice ==
    [name |-> <<<<sublattice_prefix, "inner">>, <<sublattice_prefix, "inner">>>>,
     parents |-> <<<<>>, <<>>>>,
     edge_data |-> <<<<>>, <<>>>>,
     workflow_executor |-> "local"]

InitSaturation ==
    /\ NoSession
    /\ lattice \in {SaturationLattice, SubLattice("local")}
    /\ result_object = [status |-> NEW_OBJECT, start_time |-> NoTime, end_time |-> NoTime,
                        error |-> NoError, result |-> None,
                        nodes |-> [n \in DOMAIN lattice.name |-> InitialNode]]
    /\ pc = "init"
    /\ layer = 1
    /\ idx = 1
    /\ task_input = [args |-> <<>>, kwargs |-> <<>>]
    /\ raised = None
    /\ future = [j \in ({NodeJob(n) : n \in DOMAIN lattice.name}
                          \cup {DispatchJob(n) : n \in DOMAIN lattice.name}
                          \cup {PostProcessJob}) |-> NoFuture]
    /\ jobpc = [j \in DOMAIN future |-> "idle"]
    /\ queue = <<>>
    /\ db = <<>>
    /\ webhook = <<>>
    /\ unsent = <<>>

SpecSaturation == InitSaturation /\ [][Next]_vars

\* a step of a worker thread of the pool
WorkerStep ==
    \/ StartJob
    \/ \E j \in Jobs : RunTask(j)
    \/ \E j \in Jobs : RunSublattice(j)
    \/ \E j \in Jobs : AwaitSublattice(j)
    \/ \E j \in Jobs : CallbackMerge(j)
    \/ \E j \in Jobs : CallbackPersist(j)
    \/ \E j \in Jobs : CallbackNotify(j)

\* the worker threads are scheduled: a worker that can take a step takes one
SpecSaturationFair == SpecSaturation /\ WF_vars(WorkerStep)

\* the workers blocked in fut.result() on a nested job that has not finished
Blocked ==
    {j \in Jobs : jobpc[j] = "sub_wait" /\ future[DispatchJob(j[2])].state # "finished"}

\* every worker of the pool is blocked on a nested job
Saturated == Cardinality(Blocked) = PoolSize

\* in a graph with fewer sublattice nodes than workers every job that waits in
\* the queue is started, the workers being scheduled
QueueDrains == <>[](Cardinality(SublatticeNodes) < PoolSize => queue = <<>>)

EndStatuses == {COMPLETED, FAILED, CANCELLED, POSTPROCESSING_FAILED, PENDING_POSTPROCESSING}

\* C30: a node that has reached COMPLETED keeps its status and its output in
\* every later step, and a step that gives the workflow a terminal status (the
\* abort after a wave, the end of post-processing, run_workflow's except
\* clause) changes workflow-level fields only: the node entries and the
\* start_time stay as they were.
C30_CompletedNodesRetained ==
    [][/\ \A n \in Nodes :
             _get_node_status(n) = COMPLETED =>
                /\ result_object'.nodes[n].status = COMPLETED
                /\ result_object'.nodes[n].output = get_node_output(n)
       /\ (result_object'.status # result_object.status /\
           result_object'.status \in EndStatuses) =>
             /\ result_object'.nodes = result_object.nodes
             /\ result_object'.start_time = result_object.start_time]_vars

\* run_workflow has returned a FAILED Result in which a node is COMPLETED with
\* its output and another node is FAILED
C30_Witness ==
    /\ pc = "returned"
    /\ result_object.status = FAILED
    /\ \E n, m \in Nodes :
          /\ _get_node_status(n) = COMPLETED
          /\ get_node_output(n) # None
          /\ _get_node_status(m) = FAILED

\* ------------------------------------------------- post-processing

\* the step submits the post-process job to the pool
SubmitsPostProcess ==
    /\ future[PostProcessJob].state = "none"
    /\ future'[PostProcessJob].state # "none"

\* C31: the post-process job is submitted only in a state where every node of
\* the graph is COMPLETED in the Result: never while a node is still RUNNING,
\* never after a node's task ended with an error.
C31_PostProcessAfterAllCompleted ==
    [][SubmitsPostProcess =>
          \A n \in Nodes :
             /\ _get_node_status(n) = COMPLETED
             /\ future[NodeJob(n)].exception = None]_vars

\* ------------------------------------------------- termination

\* a step of the thread that runs run_workflow
SchedulerThreadStep ==
    \/ RunWorkflow
    \/ RunPureNode
    \/ AssembleInputs
    \/ MarkRunning
    \/ MarkPersist
    \/ MarkNotify
    \/ SubmitTask
    \/ AddDoneCallback
    \/ InlineCallbackMerge
    \/ InlineCallbackPersist
    \/ InlineCallbackNotify
    \/ Wait
    \/ CheckNode
    \/ PostProcess
    \/ PostProcessResult
    \/ ReturnPersist
    \/ ReturnNotify
    \/ HandleException
    \/ ExceptPersist

\* the threads are scheduled: the scheduler thread, when it can take a step,
\* takes one, and so do the workers of the pool; every executor call returns
\* or raises (RunTask is a step that is always enabled for a running job)
SpecFair == Spec /\ WF_vars(SchedulerThreadStep) /\ WF_vars(WorkerStep)

\* C32: for a graph without sublattice nodes, with the threads scheduled
\* fairly and every executor call returning or raising, run_workflow
\* eventually returns and the Result then has a terminal status.
C32_Termination ==
    (SublatticeNodes = {}) =>
        <>(pc = "returned" /\ result_object.status \in WorkflowTerminal)

\* run_workflow has returned for a graph without sublattice nodes after two
\* tasks of one wave ran in the pool
C32_Witness ==
    /\ SublatticeNodes = {}
    /\ pc = "returned"
    /\ result_object.status \in WorkflowTerminal
    /\ Cardinality({n \in TaskNodes : future[NodeJob(n)].state = "finished"}) >= 2

\* ------------------------------------------------- positional arguments

\* the positional edges into a node, as (parent position, edge position) pairs
ArgEdges(n) == {ik \in Range(EdgeWalk(n, 1, 1)) : EdgeAt(n, ik).param_type = "arg"}

\* every positional edge into the node carries its position, and the positions
\* are 1..k, each once
PositionsBound(n) ==
    /\ \A ik \in ArgEdges(n) : "arg_index" \in DOMAIN EdgeAt(n, ik)
    /\ \A k \in 1..Cardinality(ArgEdges(n)) :
          \E ik \in ArgEdges(n) : EdgeAt(n, ik).arg_index = k

\* C33: for a regular node the positional args are in the order of the edges'
\* arg_index: the k-th element of args is the output of the parent whose arg
\* edge carries arg_index k, also when a parent is bound to several positions
\* that are not adjacent.
C33_ArgsInArgIndexOrder ==
    (Assembled /\ ~IsCollection(cur) /\ PositionsBound(cur)) =>
        /\ Len(task_input.args) = Cardinality(ArgEdges(cur))
        /\ \A ik \in ArgEdges(cur) :
              task_input.args[EdgeAt(cur, ik).arg_index] = ValueAt(cur, ik)

\* ------------------------------------------------- serialising the graph

\* most elements of a node's call_before or call_after list
MaxHooks == 2

DepIds == {"a", "b"}

\* an element of call_before / call_after in the live graph: the dict of a dep
DepDict(id) == <<"dict", id>>

\* str(dep): the string of a dict is not the dict, the string of a string is
\* that string
str(dep) == <<"str", dep[2]>>

HookLists == UNION {[1..k -> {DepDict(id) : id \in DepIds}] : k \in 0..MaxHooks}

\* the metadata of a node; executor "missing" is a metadata dict without the
\* key "executor"
Metadatas ==
    [executor : {"local", "missing"}, deps : {"deps"},
     call_before : HookLists, call_after : HookLists]

\* extract_metadata: what it returns, and what the dict it was given holds
\* after the call. metadata.copy() is shallow, so call_before and call_after
\* of the copy are the list objects of the original, and the assignments
\* call_before[i] = str(dep) write into them; found: get_executor returned an
\* executor
extract_metadata(metadata, found) ==
    IF metadata.executor = "missing"
    THEN [returned |-> [executor |-> "missing", executor_name |-> None,
                        deps |-> metadata.deps,
                        call_before |-> metadata.call_before,
                        call_after |-> metadata.call_after],
          original |-> metadata]
    ELSE LET call_before == [i \in DOMAIN metadata.call_before |->
                                str(metadata.call_before[i])]
             call_after == [i \in DOMAIN metadata.call_after |->
                               str(metadata.call_after[i])]
         IN [returned |-> [executor |-> IF found THEN "encoded" ELSE metadata.executor,
                           executor_name |-> IF found THEN metadata.executor ELSE None,
                           deps |-> "encoded",
                           call_before |-> call_before,
                           call_after |-> call_after],
             original |-> [metadata EXCEPT !.call_before = call_before,
                                           !.call_after = call_after]]

\* extract_graph_node of node n: the node of the document, and the metadata of
\* the live node after the call
extract_graph_node(n, found) ==
    LET extracted == extract_metadata(lattice.metadata[n], found)
    IN [returned |-> [metadata |-> extracted.returned, doc |-> "doc"],
        original |-> extracted.original]

\* a graph of one task node with its metadata
MetadataLattices ==
    {[name |-> <<<<no_prefix, "task">>>>,
      parents |-> <<<<>>>>,
      edge_data |-> <<<<>>>>,
      workflow_executor |-> "local",
      metadata |-> <<metadata>>] : metadata \in Metadatas}

\* the scheduler stands at the node, before it reads the node's deps
InitEncode ==
    /\ NoSession
    /\ lattice \in MetadataLattices
    /\ result_object = [status |-> RUNNING, start_time |-> <<0>>, end_time |-> NoTime,
                        error |-> NoError, result |-> None,
                        nodes |-> [n \in DOMAIN lattice.name |-> InitialNode]]
    /\ pc = "node"
    /\ layer = 1
    /\ idx = 1
    /\ task_input = [args |-> <<>>, kwargs |-> <<>>]
    /\ raised = None
    /\ future = [j \in ({NodeJob(n) : n \in DOMAIN lattice.name}
                          \cup {DispatchJob(n) : n \in DOMAIN lattice.name}
                          \cup {PostProcessJob}) |-> NoFuture]
    /\ jobpc = [j \in DOMAIN future |-> "idle"]
    /\ queue = <<>>
    /\ db = <<>>
    /\ webhook = <<>>
    /\ unsent = <<>>

\* a persistence write: encode_result serialises the Result and its graph
EncodeResult ==
    /\ pc = "node"
    /\ \E found \in BOOLEAN :
          /\ db' = <<[status |-> result_object.status,
                      graph |-> [n \in Nodes |-> extract_graph_node(n, found).returned]]>>
          /\ lattice' = [lattice EXCEPT
                            !.metadata = [n \in Nodes |->
                                             extract_graph_node(n, found).original]]
    /\ UNCHANGED <<result_object, sched_vars, pool_vars, webhook, unsent>>
    /\ UNCHANGED session_vars

\* the hooks of a node that are no longer the dict of a dep
Stringified(n) ==
    {dep \in Range(lattice.metadata[n].call_before) \cup
             Range(lattice.metadata[n].call_after) : dep[1] = "str"}

\* the scheduler rehydrates call_before and call_after of the node:
\* DepsCall().from_dict(dep_json) is given each element of the live lists
RehydrateDeps ==
    /\ pc = "node"
    /\ \E outcome \in {"returns", "raises"} :
          IF outcome = "raises" /\ Stringified(cur) # {}
          THEN Raise("DepsError")
          ELSE /\ pc' = "mark_merge"
               /\ UNCHANGED <<layer, idx, raised>>
    /\ UNCHANGED <<lattice, result_object, task_input, pool_vars, db, webhook, unsent>>
    /\ UNCHANGED session_vars

NextEncode == EncodeResult \/ RehydrateDeps

SpecEncode == InitEncode /\ [][NextEncode]_vars

\* C34: serialising the graph for a persistence write leaves the live graph as
\* it was: no node's metadata changes, its call_before and call_after lists
\* keep their elements, and the scheduler's rehydration of the hooks meets the
\* dicts it would have met before the write.
C34_SerializationLeavesGraphUnchanged ==
    /\ [][lattice' = lattice]_vars
    /\ [](Stringified(cur) = {} /\ raised # "DepsError")

\* ------------------------------------------------- sublattices on the client

\* a sublattice node that no other node depends on
LoneSublattice(wf) ==
    [name |-> <<<<sublattice_prefix, "inner">>>>,
     parents |-> <<<<>>>>,
     edge_data |-> <<<<>>>>,
     workflow_executor |-> wf]

InitClient ==
    /\ NoSession
    /\ lattice \in Lattices \cup {LoneSublattice(wf) : wf \in WorkflowExecutors}
    /\ result_object = [status |-> NEW_OBJECT, start_time |-> NoTime, end_time |-> NoTime,
                        error |-> NoError, result |-> None,
                        nodes |-> [n \in DOMAIN lattice.name |-> InitialNode]]
    /\ pc = "init"
    /\ layer = 1
    /\ idx = 1
    /\ task_input = [args |-> <<>>, kwargs |-> <<>>]
    /\ raised = None
    /\ future = [j \in ({NodeJob(n) : n \in DOMAIN lattice.name}
                          \cup {DispatchJob(n) : n \in DOMAIN lattice.name}
                          \cup {PostProcessJob}) |-> NoFuture]
    /\ jobpc = [j \in DOMAIN future |-> "idle"]
    /\ queue = <<>>
    /\ db = <<>>
    /\ webhook = <<>>
    /\ unsent = <<>>

SpecClient == InitClient /\ [][Next]_vars

\* the sublattice nodes whose _run_task call has returned a node result
RanSublattices ==
    {n \in SublatticeNodes :
        future[NodeJob(n)].state = "finished" /\ future[NodeJob(n)].exception = None}

NoSublatticeExecutor == Traceback("No executor selected for dispatching sublattices")

\* C35: with the workflow executor "client", no nested dispatch job is ever
\* submitted to the pool, the node result of a sublattice node that ran is
\* FAILED with the traceback of "No executor selected for dispatching
\* sublattices", and run_workflow then returns the outer workflow FAILED, not
\* PENDING_POSTPROCESSING.
C35_ClientSublatticeFails ==
    lattice.workflow_executor = "client" =>
        /\ \A n \in Nodes : future[DispatchJob(n)].state = "none"
        /\ \A n \in RanSublattices :
              /\ future[NodeJob(n)].result.status = FAILED
              /\ future[NodeJob(n)].result.error = NoSublatticeExecutor
        /\ (pc = "returned" /\ RanSublattices # {}) => result_object.status = FAILED

\* C35 without its conclusion on the outer workflow
ClientSublatticeNodeResult ==
    lattice.workflow_executor = "client" =>
        /\ \A n \in Nodes : future[DispatchJob(n)].state = "none"
        /\ \A n \in RanSublattices :
              /\ future[NodeJob(n)].result.status = FAILED
              /\ future[NodeJob(n)].result.error = NoSublatticeExecutor

====
